---- MODULE Spec2Model ----
(***************************************************************************)
(* neogma: the Clause Compiler (QueryBuilder), the Predicate Compiler      *)
(* (Where) and the Bind-Parameter Table they share.                        *)
(*                                                                         *)
(* Text is a sequence of tokens <<kind, text, n>>:                         *)
(*   <<"txt", s, 0>>   literal text s                                      *)
(*   <<"ws", " ", 0>>  one whitespace character (" " or "\n")              *)
(*   <<"ph", b, n>>    the placeholder $name of the bind name <<b, n>>     *)
(* A bind name <<b, n>> is the base name b (n = 0) or b followed by the    *)
(* numeric suffix n (n > 0).                                               *)
(* JavaScript objects are ordered dictionaries: sequences of <<key, value>>*)
(* pairs with pairwise distinct keys, in insertion order.                  *)
(***************************************************************************)
EXTENDS Integers, Sequences, FiniteSets, TLC

VARIABLES
    tables,                  \* the BindParam instances: id -> (bind name -> value)
    parameters,              \* QueryBuilder.parameters
    statement,               \* QueryBuilder.statement
    bindParam,               \* QueryBuilder.bindParam (instance id, 0: no builder)
    qbState,                 \* "none" | "built" | the error the constructor threw
    qbTrace,                 \* per rendered descriptor: its fragment
    configBindParam,         \* the instance given as config.bindParam (0: none)
    rawParams,               \* Where.rawParams
    identifierPropertyData,  \* Where.identifierPropertyData
    whereBindParam,          \* Where.bindParam (instance id, 0: no Where)
    whereState,              \* "none" | "built"
    whereOut                 \* the last call on the Where: [call, status, text]

vars == <<tables, parameters, statement, bindParam, qbState, qbTrace,
          configBindParam, rawParams, identifierPropertyData, whereBindParam,
          whereState, whereOut>>

qbVars == <<parameters, statement, bindParam, qbState, qbTrace, configBindParam>>

whereVars == <<rawParams, identifierPropertyData, whereBindParam, whereState,
               whereOut>>

----------------------------------------------------------------------------
(* Bounds *)

\* the Where constructor plus MaxAdds - 1 further addParams calls
MaxAdds == 2
\* clause descriptors in one QueryBuilder, drawn from CoreDescriptors
MaxParams == 3
\* clause descriptors in one QueryBuilder, drawn from AllDescriptors
MaxWide == 1

----------------------------------------------------------------------------
(* Text *)

T(s) == <<"txt", s, 0>>
SP == <<"ws", " ", 0>>
NL == <<"ws", "\n", 0>>
PH(name) == <<"ph", name[1], name[2]>>

IsWs(tok) == tok[1] = "ws"
IsPh(tok) == tok[1] = "ph"

RECURSIVE Join(_, _)
\* Array.prototype.join: undefined elements are modelled as the empty text
Join(parts, sep) ==
    IF parts = <<>> THEN <<>>
    ELSE IF Len(parts) = 1 THEN parts[1]
    ELSE parts[1] \o sep \o Join(Tail(parts), sep)

RECURSIVE CollapseRange(_, _, _)
\* s[lo..hi] with every whitespace character that follows another dropped
\* and every other whitespace character replaced by a space
CollapseRange(s, lo, hi) ==
    IF lo > hi THEN <<>>
    ELSE IF lo = hi
    THEN IF IsWs(s[lo])
         THEN IF lo > 1 /\ IsWs(s[lo - 1]) THEN <<>> ELSE <<SP>>
         ELSE <<s[lo]>>
    ELSE LET mid == (lo + hi) \div 2 IN
         CollapseRange(s, lo, mid) \o CollapseRange(s, mid + 1, hi)

\* String.prototype.replace(/\s+/g, ' '): every maximal run of whitespace
\* becomes one space
Collapse(s) == CollapseRange(s, 1, Len(s))

----------------------------------------------------------------------------
(* Ordered dictionaries *)

Keys(d) == {d[i][1] : i \in DOMAIN d}

Put(d, k, v) ==
    IF k \in Keys(d)
    THEN [i \in DOMAIN d |-> IF d[i][1] = k THEN <<k, v>> ELSE d[i]]
    ELSE Append(d, <<k, v>>)

RECURSIVE Assign(_, _)
\* Object.assign(target, src): own keys of src in order, overwriting in place
Assign(target, src) ==
    IF src = <<>> THEN target
    ELSE Assign(Put(target, src[1][1], src[1][2]), Tail(src))

RECURSIVE AssignAll(_, _)
AssignAll(target, srcs) ==
    IF srcs = <<>> THEN target
    ELSE AssignAll(Assign(target, srcs[1]), Tail(srcs))

----------------------------------------------------------------------------
(* Values: <<kind, n, elems>>, elems the <<kind, n>> elements of a list *)

Str(n) == <<"string", n, <<>>>>
Num(n) == <<"number", n, <<>>>>
Null == <<"null", 0, <<>>>>
List(elems) == <<"list", 0, elems>>
\* { [Op.in]: elems }
OpIn(elems) == <<"in", 0, elems>>
\* neo4j-driver int(n)
int(n) == <<"int", n, <<>>>>

SingleKinds == {"string", "number", "boolean", "int", "point", "date", "time",
                "localtime", "datetime", "localdatetime", "duration"}

isSupportedSingleType(kind) == kind \in SingleKinds

isNeo4jSupportedTypes(value) ==
    IF value[1] = "list"
    THEN \A i \in DOMAIN value[3] : isSupportedSingleType(value[3][i][1])
    ELSE isSupportedSingleType(value[1])

isWhereIn(value) == value[1] = "in"

----------------------------------------------------------------------------
(* Bind-Parameter Table *)

EmptyTable == [x \in {} |-> Null]

Sanitize(base) == IF base = "p-1" THEN "p_1" ELSE base

MinFree(S) == CHOOSE n \in 1..(Cardinality(S) + 1) :
                 /\ n \notin S
                 /\ \A m \in 1..(n - 1) : m \in S

getUniqueName(table, base) ==
    LET b == Sanitize(base) IN
    IF <<b, 0>> \notin DOMAIN table THEN <<b, 0>>
    ELSE <<b, MinFree({nm[2] : nm \in {x \in DOMAIN table : x[1] = b}})>>

\* BindParam.getUniqueNameAndAdd on instance id: [name, h]
getUniqueNameAndAdd(h, id, base, value) ==
    LET Add(name) ==
            [name |-> name, h |-> [h EXCEPT ![id] = (name :> value) @@ h[id]]]
    IN  Add(getUniqueName(h[id], base))

NewId(h) == Cardinality(DOMAIN h) + 1

\* BindParam.acquire: the instance given, or a new empty one: [id, h]
acquire(h, id) ==
    IF id # 0 THEN [id |-> id, h |-> h]
    ELSE [id |-> NewId(h), h |-> (NewId(h) :> EmptyTable) @@ h]

----------------------------------------------------------------------------
(* Predicate Compiler (Where) *)

\* A Where instance: [bindParam, rawParams, identifierPropertyData]

\* getNameAndAddToParams returning `$${prefix}` instead of the name the
\* table generated
getNameAndAddToParamsPrefix(h, id, prefix, value) ==
    [name |-> PH(<<prefix, 0>>),
     h |-> getUniqueNameAndAdd(h, id, prefix, value).h]

\* getNameAndAddToParams: [name: the text `$${name}`, h]
getNameAndAddToParams(h, id, prefix, value) ==
    LET Named(r) == [name |-> PH(r.name), h |-> r.h]
    IN  Named(getUniqueNameAndAdd(h, id, prefix, value))

RECURSIVE FlattenProps(_, _)
\* the (identifier, property, value) triples of `for property in params[id]`
FlattenProps(nodeIdentifier, props) ==
    IF props = <<>> THEN <<>>
    ELSE <<<<nodeIdentifier, props[1][1], props[1][2]>>>>
         \o FlattenProps(nodeIdentifier, Tail(props))

RECURSIVE Flatten(_)
\* the triples visited by the two nested for-in loops, in order
Flatten(params) ==
    IF params = <<>> THEN <<>>
    ELSE FlattenProps(params[1][1], params[1][2]) \o Flatten(Tail(params))

RECURSIVE RegisterAll(_, _, _, _)
\* the body of the loops of setBindParamNames over the triples: [ipd, h]
RegisterAll(triples, ipd, h, id) ==
    IF triples = <<>> THEN [ipd |-> ipd, h |-> h]
    ELSE LET nodeIdentifier == triples[1][1]
             property == triples[1][2]
             value == triples[1][3]
             \* identifierPropertyData.push({ ..., bindParamName, operator })
             Push(r, operator) ==
                 RegisterAll(Tail(triples),
                     Append(ipd, [identifier |-> nodeIdentifier,
                                  property |-> property,
                                  bindParamName |-> r.name,
                                  operator |-> operator]),
                     r.h, id)
         IN  IF isNeo4jSupportedTypes(value) \/ isWhereIn(value)
             THEN Push(getNameAndAddToParams(h, id, property,
                           IF isNeo4jSupportedTypes(value) THEN value
                           ELSE List(value[3])),
                       IF isNeo4jSupportedTypes(value) THEN "equals" ELSE "in")
             ELSE RegisterAll(Tail(triples), ipd, h, id)

\* Where.setBindParamNames: [w, h]
setBindParamNames(w, h) ==
    LET params == AssignAll(<<>>, w.rawParams)
        Set(r) == [w |-> [w EXCEPT !.identifierPropertyData = r.ipd],
                   h |-> r.h]
    IN  Set(RegisterAll(Flatten(params), w.identifierPropertyData, h,
                        w.bindParam))

\* Where.addParams: [w, h]
addParams(w, whereParams, h) ==
    setBindParamNames([w EXCEPT !.rawParams = Append(@, whereParams)], h)

\* new Where(whereParams, bindParam): [w, h]
NewWhere(whereParams, suppliedId, h) ==
    LET Construct(a) ==
            addParams([bindParam |-> a.id, rawParams |-> <<>>,
                       identifierPropertyData |-> <<>>], whereParams, a.h)
    IN  Construct(acquire(h, suppliedId))

\* operatorForStatement without the throw in object mode
operatorForStatementNoThrow(mode, operator) ==
    IF mode = "object" THEN [e |-> FALSE, s |-> <<T(":")>>]
    ELSE [e |-> FALSE, s |-> IF operator = "equals" THEN <<T("=")>>
                                                    ELSE <<T("IN")>>]

\* operatorForStatement: [e: whether it throws, s]
operatorForStatement(mode, operator) ==
    IF mode = "object"
    THEN IF operator # "equals"
         THEN [e |-> TRUE, s |-> <<>>]
         ELSE [e |-> FALSE, s |-> <<T(":")>>]
    ELSE [e |-> FALSE, s |-> IF operator = "equals" THEN <<T("=")>>
                                                    ELSE <<T("IN")>>]

\* one element of statementParts
StatementPart(mode, d) ==
    (IF mode = "text" THEN <<T(d.identifier), T("."), T(d.property)>>
                      ELSE <<T(d.property)>>)
    \o <<SP>> \o operatorForStatement(mode, d.operator).s
    \o <<SP, d.bindParamName>>

\* Where.getStatement(mode): [status: "ok" | "error", text]
getStatement(ipd, mode) ==
    IF \E i \in DOMAIN ipd : operatorForStatement(mode, ipd[i].operator).e
    THEN [status |-> "error", text |-> <<>>]
    ELSE LET statementParts == [i \in DOMAIN ipd |-> StatementPart(mode, ipd[i])]
         IN  [status |-> "ok",
              text |-> IF mode = "text"
                       THEN Join(statementParts, <<SP, T("AND"), SP>>)
                       ELSE <<T("{"), SP>>
                            \o Join(statementParts, <<T(","), SP>>)
                            \o <<SP, T("}")>>]

----------------------------------------------------------------------------
(* Graph elements and clause descriptors                                   *)
(*                                                                         *)
(* A graph element is a record                                             *)
(*   [str, text, identifier, label, model, name, direction, inner, attrs]  *)
(* str: the element is a raw string (text); label, model (the label the    *)
(* model's getLabel() returns), name and direction are "" when the key is  *)
(* absent; inner is "none", "where" or "properties" and attrs its map.     *)
(* A clause descriptor is a record                                         *)
(*   [kind, form, text, elems, flag, ident, attrs, names, pairs, n]        *)
(* kind: the key of the parameter object ("raw", "match", ...), form: the  *)
(* shape of its value, flag: optional (match) or detach (delete).          *)
(***************************************************************************)

isNodeWithLabel(node) == node.label # ""
isNodeWithModel(node) == node.model # ""
isNodeWithWhere(node) == node.inner = "where"
isNodeWithProperties(node) == node.inner = "properties"
isRelationshipWithWhere(relationship) == relationship.inner = "where"
isRelationshipWithProperties(relationship) == relationship.inner = "properties"
isRelationship(element) == element.direction # ""

\* the result of a renderer: the text s, the tables h, the error thrown e
\* ("" when it returns)
Ok(s, h) == [s |-> s, h |-> h, e |-> ""]
Thrown(e, h) == [s |-> <<>>, h |-> h, e |-> e]

RECURSIVE PropertyParts(_, _, _, _, _)
\* one `lhs op $name` part per property, each registered under its key
PropertyParts(props, lhs, op, id, h) ==
    IF props = <<>> THEN [parts |-> <<>>, h |-> h]
    ELSE LET Cons(r, rest) ==
                 [parts |-> <<lhs \o <<T(props[1][1])>> \o op
                              \o <<PH(r.name)>>>> \o rest.parts,
                  h |-> rest.h]
             Rest(r) == Cons(r, PropertyParts(Tail(props), lhs, op, id, r.h))
         IN  Rest(getUniqueNameAndAdd(h, id, props[1][1], props[1][2]))

\* QueryRunner.getPropertiesWithParams: `{ k1: $v1, k2: $v2 }`
getPropertiesWithParams(props, id, h) ==
    LET Braces(r) ==
            Ok(<<T("{"), SP>> \o Join(r.parts, <<T(","), SP>>)
               \o <<SP, T("}")>>, r.h)
    IN  Braces(PropertyParts(props, <<>>, <<T(":"), SP>>, id, h))

\* QueryRunner.getSetParts(...).statement: `SET a.k1 = $v1, a.k2 = $v2`
getSetParts(data, identifier, id, h) ==
    LET SetOf(r) == Ok(<<T("SET"), SP>> \o Join(r.parts, <<T(","), SP>>), r.h)
    IN  SetOf(PropertyParts(data, <<T(identifier), T(".")>>,
                            <<SP, T("="), SP>>, id, h))

\* the inner part of a node or relationship statement: a Where rendered in
\* object mode, or a property map
InnerStatement(inner, w, props, id, h) ==
    LET OfWhere(r) == IF r.status = "error" THEN Thrown("mode", h)
                      ELSE Ok(<<SP>> \o r.text, h)
        OfProperties(r) == Ok(<<SP>> \o r.s, r.h)
    IN  IF inner = "where"
        THEN OfWhere(getStatement(w.identifierPropertyData, "object"))
        ELSE IF inner = "properties"
        THEN OfProperties(getPropertiesWithParams(props, id, h))
        ELSE Ok(<<>>, h)

\* `identifier:label`
getIdentifierWithLabel(identifier, label) ==
    (IF identifier # "" THEN <<T(identifier)>> ELSE <<>>)
    \o (IF label # "" THEN <<T(":"), T(label)>> ELSE <<>>)

\* QueryRunner.getNodeStatement: `(identifier:label { inner })`
getNodeStatement(identifier, label, inner, w, props, id, h) ==
    LET Parens(r) ==
            IF r.e # "" THEN r
            ELSE Ok(<<T("(")>> \o getIdentifierWithLabel(identifier, label)
                    \o r.s \o <<T(")")>>, r.h)
    IN  Parens(InnerStatement(inner, w, props, id, h))

\* QueryRunner.getRelationshipStatement: `-[identifier:name { inner }]->`
getRelationshipStatement(direction, identifier, name, inner, w, props, id, h) ==
    LET Brackets(r) ==
            IF r.e # "" THEN r
            ELSE Ok(<<T(IF direction = "in" THEN "<-" ELSE "-"), T("[")>>
                    \o getIdentifierWithLabel(identifier, name) \o r.s
                    \o <<T("]"), T(IF direction = "out" THEN "->" ELSE "-")>>,
                    r.h)
    IN  Brackets(InnerStatement(inner, w, props, id, h))

NoWhere == [bindParam |-> 0, rawParams |-> <<>>, identifierPropertyData |-> <<>>]

\* QueryBuilder.getNodeString, bp the builder's bindParam
getNodeString(node, bp, h) ==
    IF node.str THEN Ok(node.text, h)
    ELSE LET label == IF isNodeWithLabel(node) THEN node.label
                      ELSE IF isNodeWithModel(node) THEN node.model
                      ELSE ""
             \* r: the Where made of node.where, or no Where
             Statement(r) ==
                 getNodeStatement(node.identifier, label,
                     IF isNodeWithWhere(node) THEN "where"
                     ELSE IF isNodeWithProperties(node) THEN "properties"
                     ELSE "none",
                     r.w,
                     IF isNodeWithProperties(node) THEN node.attrs ELSE <<>>,
                     bp, r.h)
         IN  Statement(IF isNodeWithWhere(node)
                       THEN NewWhere(<<<<node.identifier, node.attrs>>>>, bp, h)
                       ELSE [w |-> NoWhere, h |-> h])

\* QueryBuilder.getRelationshipString
getRelationshipString(relationship, bp, h) ==
    IF relationship.str THEN Ok(relationship.text, h)
    ELSE LET \* r: the Where made of relationship.where, or no Where
             Statement(r) ==
                 getRelationshipStatement(relationship.direction,
                     relationship.identifier, relationship.name,
                     IF isRelationshipWithWhere(relationship) THEN "where"
                     ELSE IF isRelationshipWithProperties(relationship)
                     THEN "properties"
                     ELSE "none",
                     r.w,
                     IF isRelationshipWithProperties(relationship)
                     THEN relationship.attrs ELSE <<>>,
                     bp, r.h)
         IN  Statement(IF isRelationshipWithWhere(relationship)
                       THEN NewWhere(<<<<relationship.identifier,
                                         relationship.attrs>>>>, bp, h)
                       ELSE [w |-> NoWhere, h |-> h])

RECURSIVE MapNodes(_, _, _)
\* elements.map((element) => this.getNodeString(element)): [parts, h, e]
MapNodes(elements, bp, h) ==
    IF elements = <<>> THEN [parts |-> <<>>, h |-> h, e |-> ""]
    ELSE LET Cons(r, rest) ==
                 [parts |-> <<r.s>> \o rest.parts, h |-> rest.h, e |-> rest.e]
             Rest(r) ==
                 IF r.e # "" THEN [parts |-> <<>>, h |-> r.h, e |-> r.e]
                 ELSE Cons(r, MapNodes(Tail(elements), bp, r.h))
         IN  Rest(getNodeString(elements[1], bp, h))

RECURSIVE RelatedParts(_, _, _, _)
\* the loop over `related`, index the 0-based index of the head of
\* elements: [parts, h, e]
RelatedParts(elements, index, bp, h) ==
    IF elements = <<>> THEN [parts |-> <<>>, h |-> h, e |-> ""]
    ELSE LET element == elements[1]
             Cons(r, rest) ==
                 [parts |-> <<r.s>> \o rest.parts, h |-> rest.h, e |-> rest.e]
             Rest(r) ==
                 IF r.e # "" THEN [parts |-> <<>>, h |-> r.h, e |-> r.e]
                 ELSE Cons(r, RelatedParts(Tail(elements), index + 1, bp, r.h))
         IN  Rest(IF index % 2 = 1
                  THEN IF ~isRelationship(element) THEN Thrown("shape", h)
                       ELSE getRelationshipString(element, bp, h)
                  ELSE getNodeString(element, bp, h))

\* match.optional ? 'OPTIONAL' : ''
Optional(match) == IF match.flag THEN <<T("OPTIONAL")>> ELSE <<>>

\* QueryBuilder.getMatchString
getMatchString(match, bp, h) ==
    LET Patterns(r, sep) ==
            IF r.e # "" THEN Thrown(r.e, r.h)
            ELSE Ok(Join(<<Optional(match), <<T("MATCH")>>,
                           Join(r.parts, sep)>>, <<SP>>), r.h)
        OneNode(r) ==
            IF r.e # "" THEN r
            ELSE Ok(Join(<<Optional(match), <<T("MATCH"), SP>> \o r.s>>,
                         <<SP>>), r.h)
    IN  IF match.form = "string" THEN Ok(<<T("MATCH"), SP>> \o match.text, h)
        ELSE IF match.form = "multiple"
        THEN Patterns(MapNodes(match.elems, bp, h), <<T(","), SP>>)
        ELSE IF match.form = "related"
        THEN Patterns(RelatedParts(match.elems, 0, bp, h), <<>>)
        ELSE IF match.form = "literal"
        THEN Ok(Join(<<Optional(match), <<T("MATCH"), SP>> \o match.text>>,
                     <<SP>>), h)
        ELSE OneNode(getNodeString(match.elems[1], bp, h))

\* the node { identifier, label } or { identifier, model } of a create target
BareNode(create, withLabel) ==
    [create EXCEPT !.label = IF withLabel THEN @ ELSE "",
                   !.model = IF withLabel THEN "" ELSE @,
                   !.inner = "none", !.attrs = <<>>]

\* QueryBuilder.getCreateOrMergeString
getCreateOrMergeString(create, mode, bp, h) ==
    LET createOrMerge == IF mode = "merge" THEN T("MERGE") ELSE T("CREATE")
        Patterns(r, sep) ==
            IF r.e # "" THEN Thrown(r.e, r.h)
            ELSE Ok(Join(<<<<createOrMerge>>, Join(r.parts, sep)>>, <<SP>>),
                    r.h)
        OneNode(r) ==
            IF r.e # "" THEN r
            ELSE Ok(Join(<<<<createOrMerge>>, r.s>>, <<SP>>), r.h)
    IN  IF create.form = "string"
        THEN Ok(<<createOrMerge, SP>> \o create.text, h)
        ELSE IF create.form = "multiple"
        THEN Patterns(MapNodes(create.elems, bp, h), <<T(","), SP>>)
        ELSE IF create.form = "related"
        THEN Patterns(RelatedParts(create.elems, 0, bp, h), <<>>)
        ELSE IF isNodeWithLabel(create.elems[1])
                \/ isNodeWithModel(create.elems[1])
        THEN OneNode(getNodeString(
                 BareNode(create.elems[1], isNodeWithLabel(create.elems[1])),
                 bp, h))
        ELSE Thrown("create", h)

\* QueryBuilder.getSetString
getSetString(set, bp, h) ==
    IF set.form = "string" THEN Ok(<<T("SET"), SP>> \o set.text, h)
    ELSE getSetParts(set.attrs, set.ident, bp, h)

\* the strings of names as text
Words(names) == [i \in DOMAIN names |-> <<T(names[i])>>]

\* QueryBuilder.getDeleteString: [undefined, s]; identifiers is an array or
\* one string, which the code wraps in an array
getDeleteString(dlt) ==
    LET detach == IF dlt.flag THEN <<T("DETACH"), SP>> ELSE <<>> IN
    IF dlt.form = "string"
    THEN [undefined |-> FALSE, s |-> <<T("DELETE"), SP>> \o dlt.text]
    ELSE IF dlt.form = "identifiers"
    THEN [undefined |-> FALSE,
          s |-> detach \o <<T("DELETE"), SP>>
                \o Join(Words(dlt.names), <<T(","), SP>>)]
    ELSE IF dlt.form = "literal"
    THEN [undefined |-> FALSE, s |-> detach \o <<T("DELETE"), SP>> \o dlt.text]
    ELSE [undefined |-> TRUE, s |-> <<>>]

\* QueryBuilder.getRemoveString: [undefined, s]
getRemoveString(remove) ==
    IF remove.form = "string"
    THEN [undefined |-> FALSE, s |-> <<T("REMOVE"), SP>> \o remove.text]
    ELSE IF remove.form = "properties"
    THEN [undefined |-> FALSE,
          s |-> <<T("REMOVE"), SP>>
                \o Join([i \in DOMAIN remove.names |->
                            <<T(remove.ident), T("."), T(remove.names[i])>>],
                        <<T(","), SP>>)]
    ELSE IF remove.form = "labels"
    THEN [undefined |-> FALSE,
          s |-> <<T("REMOVE"), SP, T(remove.ident), T(":")>>
                \o Join(Words(remove.names), <<T(":")>>)]
    ELSE [undefined |-> TRUE, s |-> <<>>]

\* QueryBuilder.getReturnString
getReturnString(rtn) ==
    IF rtn.form = "string" THEN <<T("RETURN"), SP>> \o rtn.text
    ELSE IF rtn.form = "object"
    THEN <<T("RETURN"), SP>>
         \o Join([i \in DOMAIN rtn.pairs |->
                     <<T(rtn.pairs[i][1])>>
                     \o (IF rtn.pairs[i][2] # ""
                         THEN <<T("."), T(rtn.pairs[i][2])>> ELSE <<>>)],
                 <<T(","), SP>>)
    ELSE <<T("RETURN"), SP>> \o Join(Words(rtn.names), <<T(","), SP>>)

\* getLimitString naming the parameter `limit` whatever the table holds
getLimitStringFixedName(limit, bp, h) ==
    IF limit.form = "string" THEN Ok(<<T("LIMIT"), SP>> \o limit.text, h)
    ELSE Ok(<<T("LIMIT"), SP, PH(<<"limit", 0>>)>>,
            [h EXCEPT ![bp] = (<<"limit", 0>> :> int(limit.n)) @@ h[bp]])

\* QueryBuilder.getLimitString
getLimitString(limit, bp, h) ==
    LET LimitOf(r) == Ok(<<T("LIMIT"), SP, PH(r.name)>>, r.h)
    IN  IF limit.form = "string" THEN Ok(<<T("LIMIT"), SP>> \o limit.text, h)
        ELSE LimitOf(getUniqueNameAndAdd(h, bp, "limit", int(limit.n)))

\* QueryBuilder.getWithString
getWithString(wth) == <<T("WITH"), SP>> \o Join(Words(wth.names), <<T(","), SP>>)

\* what one descriptor does to statementParts: [pushed, undefined, s, h, e]
Pushed(r) == [pushed |-> TRUE, undefined |-> FALSE, s |-> r.s, h |-> r.h,
              e |-> r.e]
PushedMaybe(r, h) == [pushed |-> TRUE, undefined |-> r.undefined, s |-> r.s,
                      h |-> h, e |-> ""]

\* the if-else chain of setStatementByParameters for one descriptor
RenderParameter(param, bp, h) ==
    IF param.kind = "raw" THEN Pushed(Ok(param.text, h))
    ELSE IF param.kind = "match" THEN Pushed(getMatchString(param, bp, h))
    ELSE IF param.kind \in {"create", "merge"}
    THEN Pushed(getCreateOrMergeString(param, param.kind, bp, h))
    ELSE IF param.kind = "set" THEN Pushed(getSetString(param, bp, h))
    ELSE IF param.kind = "delete" THEN PushedMaybe(getDeleteString(param), h)
    ELSE IF param.kind = "remove" THEN PushedMaybe(getRemoveString(param), h)
    ELSE IF param.kind = "return" THEN Pushed(Ok(getReturnString(param), h))
    ELSE IF param.kind = "limit" THEN Pushed(getLimitString(param, bp, h))
    ELSE IF param.kind = "with" THEN Pushed(Ok(getWithString(param), h))
    ELSE [pushed |-> FALSE, undefined |-> FALSE, s |-> <<>>, h |-> h, e |-> ""]

\* the loop step with the error of a descriptor caught: the descriptors after
\* it are still rendered
StepKeepGoing(st, param, bp) ==
    LET Push(r) ==
            IF r.e # ""
            THEN [st EXCEPT !.e = r.e, !.h = r.h]
            ELSE [e |-> st.e,
                  parts |-> IF st.e = "" /\ r.pushed THEN Append(st.parts, r.s)
                            ELSE st.parts,
                  trace |-> IF st.e = ""
                            THEN Append(st.trace, [pushed |-> r.pushed,
                                                   undefined |-> r.undefined,
                                                   s |-> r.s])
                            ELSE st.trace,
                  h |-> r.h]
    IN  Push(RenderParameter(param, bp, st.h))

\* one iteration of the loop of setStatementByParameters on the running
\* [e, parts, trace, h]: an error thrown ends the loop
Step(st, param, bp) ==
    LET Push(r) ==
            IF r.e # ""
            THEN [st EXCEPT !.e = r.e, !.h = r.h]
            ELSE [e |-> "",
                  parts |-> IF r.pushed THEN Append(st.parts, r.s)
                            ELSE st.parts,
                  trace |-> Append(st.trace, [pushed |-> r.pushed,
                                              undefined |-> r.undefined,
                                              s |-> r.s]),
                  h |-> r.h]
    IN  IF st.e # "" THEN st
        ELSE Push(RenderParameter(param, bp, st.h))

RECURSIVE Loop(_, _, _)
Loop(st, params, bp) ==
    IF params = <<>> THEN st
    ELSE Loop(Step(st, params[1], bp), Tail(params), bp)

\* the join without the whitespace collapse
JoinStatementNoCollapse(statementParts) == Join(statementParts, <<NL>>)

\* statementParts.join('\n').replace(/\s+/g, ' ')
JoinStatement(statementParts) == Collapse(Join(statementParts, <<NL>>))

\* QueryBuilder.setStatementByParameters: [e, statement, trace, h]
setStatementByParameters(params, bp, h) ==
    LET Finish(st) ==
            [e |-> st.e,
             statement |-> IF st.e = "" THEN JoinStatement(st.parts) ELSE <<>>,
             trace |-> st.trace,
             h |-> st.h]
    IN  Finish(Loop([e |-> "", parts |-> <<>>, trace |-> <<>>, h |-> h],
                    params, bp))

\* a constructor that always makes a table of its own
ConfigBindParamFresh(config, h) ==
    [id |-> NewId(h), h |-> (NewId(h) :> EmptyTable) @@ h]

\* config?.bindParam || new BindParam({}): [id, h]
ConfigBindParam(config, h) ==
    IF config # 0 THEN [id |-> config, h |-> h]
    ELSE [id |-> NewId(h), h |-> (NewId(h) :> EmptyTable) @@ h]

\* new QueryBuilder(parameters, config): [e, statement, trace, bindParam, h]
NewQueryBuilder(params, config, h) ==
    LET Built(b, r) ==
            [e |-> r.e, statement |-> r.statement, trace |-> r.trace,
             bindParam |-> b.id, h |-> r.h]
        Compile(b) == Built(b, setStatementByParameters(params, b.id, b.h))
    IN  Compile(ConfigBindParam(config, h))

----------------------------------------------------------------------------
(* Inputs of the Where operations *)

Identifiers == {"a", "b"}
Attributes == {"p1", "p2"}

Elems123 == <<<<"number", 1>>, <<"number", 2>>, <<"number", 3>>>>

\* the values a caller gives for an attribute: "x", "y", { [Op.in]: [1,2,3] }
\* and null for p1; 5, a list of numbers and a list holding null for p2
ValuesOf(attribute) ==
    IF attribute = "p1"
    THEN {Str(1), Str(2), OpIn(Elems123), Null}
    ELSE {Num(5), List(<<<<"number", 1>>>>), List(<<<<"null", 0>>>>)}

\* WhereParamsI: no attribute, one attribute with each of its values, and
\* p1 with p2 in either order
AttrMaps ==
    {<<>>}
    \cup {<<<<p, v>>>> : <<p, v>> \in
            UNION {{<<q, w>> : w \in ValuesOf(q)} : q \in Attributes}}
    \cup {<<<<"p1", v>>, <<"p2", Num(5)>>>> :
            v \in {Str(1), OpIn(Elems123), Null}}
    \cup {<<<<"p2", Num(5)>>, <<"p1", Str(1)>>>>}

\* WhereParamsByIdentifierI: maps on a, on b, and on both in either order
WhereParamsInputs ==
    {<<<<"a", m>>>> : m \in AttrMaps}
    \cup {<<<<"b", <<<<"p1", Str(1)>>>>>>>>,
          <<<<"a", <<<<"p1", Str(1)>>>>>>, <<"b", <<<<"p1", Str(2)>>>>>>>>,
          <<<<"b", <<<<"p1", OpIn(Elems123)>>>>>>, <<"a", <<<<"p2", Num(5)>>>>>>>>}

\* the table a caller built before: empty, or holding the name p1
SeedTables == {EmptyTable, (<<"p1", 0>> :> Str(9)), (<<"limit", 0>> :> int(7))}

NoOut == [call |-> "none", status |-> "none", text |-> <<>>]
\* the constructor and addParams return the instance and never throw
Returned == [call |-> "addParams", status |-> "ok", text |-> <<>>]

----------------------------------------------------------------------------
(* Inputs of the QueryBuilder constructor *)

Node(identifier, label, model, inner, attrs) ==
    [str |-> FALSE, text |-> <<>>, identifier |-> identifier, label |-> label,
     model |-> model, name |-> "", direction |-> "", inner |-> inner,
     attrs |-> attrs]

Rel(identifier, name, direction, inner, attrs) ==
    [str |-> FALSE, text |-> <<>>, identifier |-> identifier, label |-> "",
     model |-> "", name |-> name, direction |-> direction, inner |-> inner,
     attrs |-> attrs]

StrElem(text) ==
    [str |-> TRUE, text |-> text, identifier |-> "", label |-> "",
     model |-> "", name |-> "", direction |-> "", inner |-> "none",
     attrs |-> <<>>]

Desc(kind, form) ==
    [kind |-> kind, form |-> form, text |-> <<>>, elems |-> <<>>,
     flag |-> FALSE, ident |-> "", attrs |-> <<>>, names |-> <<>>,
     pairs |-> <<>>, n |-> 0]

nodeA == Node("a", "Person", "", "none", <<>>)
\* a node with a predicate on p1 and p-1, whose names sanitize alike
nodeW == Node("a", "Person", "", "where", <<<<"p1", Str(1)>>>>)
nodeS == Node("a", "", "Movie", "where",
              <<<<"p_1", Str(1)>>, <<"p-1", Str(2)>>>>)
nodeWin == Node("a", "", "Movie", "where", <<<<"p1", OpIn(Elems123)>>>>)
nodeP == Node("b", "Person", "", "properties", <<<<"p1", Str(2)>>>>)
nodeBare == Node("c", "", "", "none", <<>>)
relX == Rel("r", "KNOWS", "out", "none", <<>>)
relW == Rel("r", "KNOWS", "in", "where", <<<<"p2", Num(5)>>>>)
relP == Rel("r", "KNOWS", "none", "properties", <<<<"limit", Num(5)>>>>)
strN == StrElem(<<T("(n)")>>)

\* `WHERE a.id = $id` with a run of two spaces and a newline at its end
RawWhere == [Desc("raw", "text") EXCEPT
                !.text = <<T("WHERE"), SP, SP, T("a.id"), SP, T("="), SP,
                           <<"ph", "id", 0>>, NL>>]
MatchMultiple == [Desc("match", "multiple") EXCEPT !.elems = <<nodeW, nodeP>>,
                                                   !.flag = TRUE]
\* related: [nodeW, nodeA]: the element at index 1 is no relationship
MatchRelatedSwapped == [Desc("match", "related") EXCEPT
                           !.elems = <<nodeW, nodeA, relX>>]
SetProperties == [Desc("set", "properties") EXCEPT
                     !.ident = "a", !.attrs = <<<<"p1", Str(1)>>,
                                                <<"limit", Num(5)>>>>]
LimitNumber == [Desc("limit", "number") EXCEPT !.n = 5]
LimitText == [Desc("limit", "string") EXCEPT !.text = <<T("10")>>]
Unknown == Desc("unknown", "none")

\* the descriptors combined in lists of up to MaxParams
CoreDescriptors == {RawWhere, MatchMultiple, MatchRelatedSwapped,
                    SetProperties, LimitNumber, LimitText, Unknown}

\* one descriptor of every kind and form
AllDescriptors ==
    CoreDescriptors \cup
    {[Desc("raw", "text") EXCEPT !.text = <<T("UNWIND"), SP, T("x")>>],
     [Desc("match", "string") EXCEPT !.text = <<T("(a)")>>],
     [Desc("match", "node") EXCEPT !.elems = <<nodeW>>],
     [Desc("match", "node") EXCEPT !.elems = <<nodeS>>, !.flag = TRUE],
     [Desc("match", "node") EXCEPT !.elems = <<nodeWin>>],
     [Desc("match", "multiple") EXCEPT !.elems = <<nodeA, strN>>],
     [Desc("match", "related") EXCEPT !.elems = <<nodeW, relW, nodeP>>],
     [Desc("match", "related") EXCEPT !.elems = <<nodeA, relP, nodeA>>,
                                      !.flag = TRUE],
     [Desc("match", "related") EXCEPT !.elems = <<relX, relW, nodeA>>],
     [Desc("match", "related") EXCEPT !.elems = <<nodeA, relX, relW>>],
     [Desc("match", "literal") EXCEPT !.text = <<T("(n)")>>, !.flag = TRUE],
     [Desc("create", "string") EXCEPT !.text = <<T("(a)")>>],
     [Desc("create", "multiple") EXCEPT !.elems = <<nodeP, nodeA>>],
     [Desc("create", "related") EXCEPT !.elems = <<nodeP, relX, nodeA>>],
     [Desc("create", "related") EXCEPT !.elems = <<nodeP, nodeA>>],
     [Desc("create", "related") EXCEPT !.elems = <<relP>>],
     [Desc("create", "node") EXCEPT !.elems = <<nodeP>>],
     [Desc("create", "node") EXCEPT !.elems = <<nodeBare>>],
     [Desc("merge", "node") EXCEPT !.elems = <<nodeS>>],
     [Desc("merge", "related") EXCEPT !.elems = <<nodeA, relW, nodeP>>],
     [Desc("set", "string") EXCEPT !.text = <<T("a.p1"), SP, T("="), SP,
                                              T("5")>>],
     [Desc("delete", "string") EXCEPT !.text = <<T("a")>>],
     [Desc("delete", "identifiers") EXCEPT !.names = <<"a", "b">>,
                                           !.flag = TRUE],
     [Desc("delete", "identifiers") EXCEPT !.names = <<"a">>],
     [Desc("delete", "literal") EXCEPT !.text = <<T("a")>>, !.flag = TRUE],
     Desc("delete", "other"),
     [Desc("remove", "string") EXCEPT !.text = <<T("a.p1")>>],
     [Desc("remove", "properties") EXCEPT !.ident = "a",
                                          !.names = <<"p1", "p2">>],
     [Desc("remove", "labels") EXCEPT !.ident = "a", !.names = <<"L1", "L2">>],
     Desc("remove", "other"),
     [Desc("return", "string") EXCEPT !.text = <<T("a")>>],
     [Desc("return", "object") EXCEPT !.pairs = <<<<"a", "p1">>, <<"b", "">>>>],
     [Desc("return", "strings") EXCEPT !.names = <<"a", "b">>],
     [Desc("with", "strings") EXCEPT !.names = <<"a", "b">>]}

RECURSIVE ListsOf(_, _)
\* the lists of at most n elements of S
ListsOf(S, n) ==
    IF n = 0 THEN {<<>>}
    ELSE LET shorter == ListsOf(S, n - 1) IN
         shorter \cup {Append(l, x) : <<l, x>> \in shorter \X S}

ParameterLists ==
    ListsOf(CoreDescriptors, MaxParams) \cup ListsOf(AllDescriptors, MaxWide)

----------------------------------------------------------------------------
(* State machine *)

Init ==
    /\ tables \in {(1 :> seed) : seed \in SeedTables}
    /\ parameters = <<>>
    /\ statement = <<>>
    /\ bindParam = 0
    /\ qbState = "none"
    /\ qbTrace = <<>>
    /\ configBindParam = 0
    /\ rawParams = <<>>
    /\ identifierPropertyData = <<>>
    /\ whereBindParam = 0
    /\ whereState = "none"
    /\ whereOut = NoOut

\* the Where instance held in the state
ThisWhere == [bindParam |-> whereBindParam, rawParams |-> rawParams,
              identifierPropertyData |-> identifierPropertyData]

\* new Where(whereParams, bindParam?) by a caller holding table 1
WhereConstructor(whereParams, suppliedId) ==
    /\ whereState = "none"
    /\ LET Store(r) ==
               /\ tables' = r.h
               /\ rawParams' = r.w.rawParams
               /\ identifierPropertyData' = r.w.identifierPropertyData
               /\ whereBindParam' = r.w.bindParam
       IN  Store(NewWhere(whereParams, suppliedId, tables))
    /\ whereState' = "built"
    /\ whereOut' = Returned
    /\ UNCHANGED qbVars

\* where.addParams(whereParams)
WhereAddParams(whereParams) ==
    /\ whereState = "built"
    /\ Len(rawParams) < MaxAdds
    /\ LET Store(r) ==
               /\ tables' = r.h
               /\ rawParams' = r.w.rawParams
               /\ identifierPropertyData' = r.w.identifierPropertyData
               /\ whereBindParam' = r.w.bindParam
       IN  Store(addParams(ThisWhere, whereParams, tables))
    /\ whereOut' = Returned
    /\ UNCHANGED <<whereState, qbVars>>

\* getStatement draining the tuple list it renders
WhereGetStatementDraining(mode) ==
    /\ whereState = "built"
    /\ LET Out(r) == [call |-> mode, status |-> r.status, text |-> r.text]
       IN  whereOut' = Out(getStatement(identifierPropertyData, mode))
    /\ identifierPropertyData' = <<>>
    /\ UNCHANGED <<tables, rawParams, whereBindParam, whereState, qbVars>>

\* where.getStatement(mode)
WhereGetStatement(mode) ==
    /\ whereState = "built"
    /\ LET Out(r) == [call |-> mode, status |-> r.status, text |-> r.text]
       IN  whereOut' = Out(getStatement(identifierPropertyData, mode))
    /\ UNCHANGED <<tables, rawParams, identifierPropertyData, whereBindParam,
                   whereState, qbVars>>

NextWhere ==
    \/ \E whereParams \in WhereParamsInputs, suppliedId \in {0, 1} :
          WhereConstructor(whereParams, suppliedId)
    \/ \E whereParams \in WhereParamsInputs : WhereAddParams(whereParams)
    \/ \E mode \in {"text", "object"} : WhereGetStatement(mode)

SpecWhere == Init /\ [][NextWhere]_vars

\* new QueryBuilder(params, config) by a caller holding table 1; a throwing
\* constructor leaves the caller no builder
QueryBuilderConstructor(params, config) ==
    /\ qbState = "none"
    /\ LET Store(r) ==
               /\ tables' = r.h
               /\ parameters' = params
               /\ qbTrace' = r.trace
               /\ qbState' = IF r.e = "" THEN "built" ELSE r.e
               /\ statement' = r.statement
               /\ bindParam' = IF r.e = "" THEN r.bindParam ELSE 0
       IN  Store(NewQueryBuilder(params, config, tables))
    /\ configBindParam' = config
    /\ UNCHANGED whereVars

Next ==
    \E params \in ParameterLists, config \in {0, 1} :
        QueryBuilderConstructor(params, config)

Spec == Init /\ [][Next]_vars

----------------------------------------------------------------------------
(* Claims on the Predicate Compiler, checked under SpecWhere *)

Lookup(d, k) == d[CHOOSE i \in DOMAIN d : d[i][1] = k][2]

\* the (identifier, attribute, value) triples of one raw map
TriplesOf(map) == {Flatten(map)[i] : i \in DOMAIN Flatten(map)}

Convertible(value) == isNeo4jSupportedTypes(value) \/ isWhereIn(value)

\* every value the caller ever gave is a supported value or a wrapper
AllConvertible ==
    \A k \in DOMAIN rawParams : \A t \in TriplesOf(rawParams[k]) :
        Convertible(t[3])

\* the (identifier, attribute) pairs some raw map supplies
SuppliedKeys ==
    UNION {{<<t[1], t[2]>> : t \in TriplesOf(rawParams[k])} :
           k \in DOMAIN rawParams}

\* the value of the latest raw map that supplies (identifier, attribute)
LatestValue(key) ==
    LET ks == {k \in DOMAIN rawParams :
                  \E t \in TriplesOf(rawParams[k]) : <<t[1], t[2]>> = key}
        last == CHOOSE k \in ks : \A m \in ks : m <= k
    IN  Lookup(Lookup(rawParams[last], key[1]), key[2])

NameOf(tok) == <<tok[2], tok[3]>>

\* the value a tuple's placeholder is bound to in the Where's table
BoundValue(d) == tables[whereBindParam][NameOf(d.bindParamName)]

RegisteredForm(value) == IF isWhereIn(value) THEN List(value[3]) ELSE value
OperatorFor(value) == IF isWhereIn(value) THEN "in" ELSE "equals"

\* C2 (as claimed): after any sequence of addParams calls the derived list
\* holds exactly one tuple per (identifier, attribute), carrying the value and
\* the operator of the latest map that supplied that attribute.
C2_LastWriteWins ==
    (whereState = "built" /\ AllConvertible) =>
        /\ \A i, j \in DOMAIN identifierPropertyData :
              (/\ identifierPropertyData[i].identifier
                    = identifierPropertyData[j].identifier
               /\ identifierPropertyData[i].property
                    = identifierPropertyData[j].property) => i = j
        /\ \A key \in SuppliedKeys :
              \E i \in DOMAIN identifierPropertyData :
                 LET d == identifierPropertyData[i] IN
                 /\ <<d.identifier, d.property>> = key
                 /\ NameOf(d.bindParamName) \in DOMAIN tables[whereBindParam]
                 /\ BoundValue(d) = RegisteredForm(LatestValue(key))
                 /\ d.operator = OperatorFor(LatestValue(key))

\* C3 (as claimed): a constructor or addParams call given a value that is
\* neither a wrapper nor a supported kind fails: a call that returned normally
\* was given no such value.
C3_UnsupportedValueIsError ==
    (whereOut.call = "addParams" /\ whereOut.status = "ok") =>
        \A t \in TriplesOf(rawParams[Len(rawParams)]) : Convertible(t[3])

RECURSIVE ExpectedParts(_, _, _)
\* the conditions of the tuples from index i on, each lhs, op, $name with
\* `gap` between lhs and op, separated by `sep`
ExpectedParts(i, mode, gap) ==
    IF i > Len(identifierPropertyData) THEN <<>>
    ELSE LET d == identifierPropertyData[i]
             lhs == IF mode = "text"
                    THEN <<T(d.identifier), T("."), T(d.property)>>
                    ELSE <<T(d.property)>>
             op == IF mode = "object" THEN T(":")
                   ELSE IF d.operator = "in" THEN T("IN") ELSE T("=")
             sep == IF i = Len(identifierPropertyData) THEN <<>>
                    ELSE IF mode = "text" THEN <<SP, T("AND"), SP>>
                    ELSE <<T(","), SP>>
         IN  lhs \o gap \o <<op, SP, d.bindParamName>> \o sep
             \o ExpectedParts(i + 1, mode, gap)

HasIn == \E i \in DOMAIN identifierPropertyData :
            identifierPropertyData[i].operator = "in"

\* getStatement as claimed, the object form being `{ ` conditions ` }` with
\* `gap` between an attribute and its colon
GetStatementContract(gap) ==
    /\ whereOut.call = "object" =>
          IF HasIn THEN whereOut.status = "error"
          ELSE /\ whereOut.status = "ok"
               /\ whereOut.text = <<T("{"), SP>>
                                  \o ExpectedParts(1, "object", gap)
                                  \o <<SP, T("}")>>
    /\ whereOut.call = "text" =>
          /\ whereOut.status = "ok"
          /\ whereOut.text = ExpectedParts(1, "text", <<SP>>)

----------------------------------------------------------------------------
(* Claims on the Clause Compiler, checked under Spec *)

RECURSIVE Sum(_, _)
\* f[1] + ... + f[n]
Sum(f, n) == IF n = 0 THEN 0 ELSE f[n] + Sum(f, n - 1)

\* the entries a graph element is to register: one per predicate value that
\* is a supported value or a wrapper, one per property
ElementRegistrations(element) ==
    IF element.str THEN 0
    ELSE IF element.inner = "where"
    THEN Cardinality({i \in DOMAIN element.attrs :
                         Convertible(element.attrs[i][2])})
    ELSE IF element.inner = "properties" THEN Len(element.attrs)
    ELSE 0

\* the entries a clause descriptor is to register when it is rendered whole
Registrations(param) ==
    IF param.kind \in {"match", "create", "merge"}
    THEN IF param.form \in {"multiple", "related"}
            \/ (param.kind = "match" /\ param.form = "node")
         THEN Sum([i \in DOMAIN param.elems |->
                      ElementRegistrations(param.elems[i])], Len(param.elems))
         ELSE 0
    ELSE IF param.kind = "set" /\ param.form = "properties"
    THEN Len(param.attrs)
    ELSE IF param.kind = "limit" /\ param.form = "number" THEN 1
    ELSE 0

\* the entries the first n descriptors of params are to register
RegistrationsUpTo(params, n) ==
    Sum([i \in 1..n |-> Registrations(params[i])], n)

\* the placeholders of a text, in order
PhSeq(s) == SelectSeq(s, IsPh)
\* the text without its whitespace
NonWs(s) == SelectSeq(s, LAMBDA tok : ~IsWs(tok))

RECURSIVE Concat(_, _)
\* f[1] \o ... \o f[n]
Concat(f, n) == IF n = 0 THEN <<>> ELSE Concat(f, n - 1) \o f[n]

\* the descriptor's fragment is text the caller wrote
IsCallerText(param) ==
    param.kind = "raw" \/ param.form \in {"string", "literal"}

\* the placeholders the compiler generated, in statement order (the string
\* elements of the inputs hold no placeholder)
EmittedPlaceholders ==
    Concat([i \in DOMAIN qbTrace |->
               IF IsCallerText(parameters[i]) THEN <<>>
               ELSE PhSeq(qbTrace[i].s)], Len(qbTrace))

EmittedAreDistinct ==
    \A k, l \in DOMAIN EmittedPlaceholders :
        EmittedPlaceholders[k] = EmittedPlaceholders[l] => k = l

\* C1 (as claimed): every $name placeholder of a compiled statement has an
\* entry in the table getBindParam() returns, and no two placeholders the
\* compiler emitted resolve to the same name.
C1_AsClaimed ==
    qbState = "built" =>
        /\ \A k \in DOMAIN statement :
              IsPh(statement[k]) =>
                  NameOf(statement[k]) \in DOMAIN tables[bindParam]
        /\ EmittedAreDistinct

\* C1 (amended): the placeholders of a compiled statement are those of its
\* fragments in order; every placeholder the compiler generated (for a Limit,
\* a Set, a predicate or a property map) has an entry in the table
\* getBindParam() returns, and no two of them resolve to the same name. A
\* placeholder in text the caller wrote (Raw, a string pattern) is passed
\* through and need not have an entry.
C1_EmittedPlaceholdersBound ==
    qbState = "built" =>
        /\ PhSeq(statement)
             = Concat([i \in DOMAIN qbTrace |-> PhSeq(qbTrace[i].s)],
                      Len(qbTrace))
        /\ \A k \in DOMAIN EmittedPlaceholders :
              NameOf(EmittedPlaceholders[k]) \in DOMAIN tables[bindParam]
        /\ EmittedAreDistinct

\* a statement of a node predicate, a property map, a Raw fragment with a
\* placeholder of its own and an integer Limit
C1_Witness ==
    /\ qbState = "built"
    /\ parameters = <<MatchMultiple, RawWhere, LimitNumber>>
    /\ Len(EmittedPlaceholders) = 3
    /\ Len(PhSeq(statement)) = 4

IsRelated(param) ==
    param.kind \in {"match", "create", "merge"} /\ param.form = "related"

\* C5 (as claimed): in a related pattern every element at an even 0-based
\* index is a node and every element at an odd index a relationship, or the
\* shape-violation error is raised: a builder that was built holds no
\* related pattern with a relationship at an even index or a node at an odd
\* index.
C5_RelatedAlternates ==
    qbState = "built" =>
        \A i \in DOMAIN parameters :
            IsRelated(parameters[i]) =>
                \A k \in DOMAIN parameters[i].elems :
                    LET element == parameters[i].elems[k] IN
                    ~element.str =>
                        (isRelationship(element) <=> (k - 1) % 2 = 1)

\* C7 (as claimed): every descriptor contributes exactly one non-empty
\* fragment or makes compilation fail.
C7_EveryDescriptorRenders ==
    qbState = "built" =>
        /\ Len(qbTrace) = Len(parameters)
        /\ \A i \in DOMAIN qbTrace :
              /\ qbTrace[i].pushed
              /\ ~qbTrace[i].undefined
              /\ qbTrace[i].s # <<>>

\* the number of non-whitespace tokens of the first i fragments
NonWsUpTo(i) ==
    Len(NonWs(Concat([j \in DOMAIN qbTrace |-> qbTrace[j].s], i)))

\* the position in s of its n-th non-whitespace token
NonWsPosition(s, n) ==
    CHOOSE p \in DOMAIN s :
        ~IsWs(s[p]) /\ Cardinality({q \in 1..p : ~IsWs(s[q])}) = n

\* C8: the statement is the fragments in the caller's order, joined and
\* whitespace-collapsed: its text without whitespace is that of the
\* fragments one after the other, one space separates a fragment from the
\* next, and it holds no newline and no run of two whitespace characters.
C8_OrderAndWhitespace ==
    qbState = "built" =>
        /\ NonWs(statement)
             = NonWs(Concat([i \in DOMAIN qbTrace |-> qbTrace[i].s],
                            Len(qbTrace)))
        /\ \A i \in DOMAIN qbTrace :
              (0 < NonWsUpTo(i) /\ NonWsUpTo(i) < Len(NonWs(statement))) =>
                  LET p == NonWsPosition(statement, NonWsUpTo(i)) IN
                  /\ statement[p + 1] = SP
                  /\ ~IsWs(statement[p + 2])
        /\ \A k \in DOMAIN statement : IsWs(statement[k]) => statement[k] = SP
        /\ \A k \in 1..(Len(statement) - 1) :
              ~(IsWs(statement[k]) /\ IsWs(statement[k + 1]))

\* a statement of three clauses, the first a Raw fragment with a run of two
\* spaces and a newline of its own
C8_Witness ==
    /\ qbState = "built"
    /\ parameters = <<RawWhere, LimitText, SetProperties>>
    /\ Len(statement) > 0

IsError(state) == state \notin {"none", "built"}

\* C6: a fault while rendering a descriptor stops the compilation there: no
\* builder and no statement result, the descriptors after the faulting one
\* register nothing, and the entries of a caller-supplied table, those it
\* held and those registered before the fault, remain.
C6_FaultAborts ==
    [][(qbState = "none" /\ IsError(qbState')) =>
          /\ statement' = <<>>
          /\ bindParam' = 0
          /\ Len(qbTrace') < Len(parameters')
          /\ configBindParam' # 0 =>
                LET old == tables[configBindParam']
                    new == tables'[configBindParam']
                    added == Cardinality(DOMAIN new) - Cardinality(DOMAIN old)
                    before == Len(qbTrace')
                IN  /\ \A nm \in DOMAIN old :
                          nm \in DOMAIN new /\ new[nm] = old[nm]
                    /\ added >= RegistrationsUpTo(parameters', before)
                    /\ added <= RegistrationsUpTo(parameters', before + 1)
                    /\ \A i \in DOMAIN qbTrace' :
                          ~IsCallerText(parameters'[i]) =>
                              \A k \in DOMAIN qbTrace'[i].s :
                                  IsPh(qbTrace'[i].s[k]) =>
                                      NameOf(qbTrace'[i].s[k]) \in DOMAIN new
      ]_vars

\* a shape violation in the second of three descriptors, the first and the
\* third registering entries, the table supplied by the caller
C6_Witness ==
    /\ qbState = "shape"
    /\ configBindParam = 1
    /\ parameters = <<LimitNumber, MatchRelatedSwapped, SetProperties>>
    /\ Len(qbTrace) = 1
    /\ \E nm \in DOMAIN tables[1] : tables[1][nm] = int(5)

LimitsOf(params) == {i \in DOMAIN params : params[i].kind = "limit"}

\* C9: an integer Limit registers int(n) under a name of base `limit` that
\* the table did not hold and emits `LIMIT $name`, the names of several
\* integer Limits being pairwise distinct; a text Limit emits `LIMIT text`
\* and registers nothing.
C9_Limit ==
    [][(qbState = "none" /\ qbState' = "built") =>
          LET old == IF configBindParam' = 0 THEN EmptyTable
                     ELSE tables[configBindParam']
              new == tables'[bindParam']
          IN  /\ \A i \in LimitsOf(parameters') :
                    LET f == qbTrace'[i].s
                        d == parameters'[i]
                    IN  IF d.form = "number"
                        THEN /\ Len(f) = 3
                             /\ f[1] = T("LIMIT") /\ f[2] = SP /\ IsPh(f[3])
                             /\ f[3][2] = "limit"
                             /\ NameOf(f[3]) \in DOMAIN new
                             /\ new[NameOf(f[3])] = int(d.n)
                             /\ NameOf(f[3]) \notin DOMAIN old
                             /\ \A j \in LimitsOf(parameters') \ {i} :
                                   parameters'[j].form = "number" =>
                                       qbTrace'[j].s[3] # f[3]
                        ELSE f = <<T("LIMIT"), SP>> \o d.text
              /\ Cardinality(DOMAIN new) - Cardinality(DOMAIN old)
                   = RegistrationsUpTo(parameters', Len(parameters'))
      ]_vars

\* two integer Limits and a text Limit on a table that held `limit` before
C9_Witness ==
    /\ qbState = "built"
    /\ configBindParam = 1
    /\ parameters = <<LimitNumber, LimitText, LimitNumber>>
    /\ DOMAIN tables[1] = {<<"limit", 0>>, <<"limit", 1>>, <<"limit", 2>>}

\* C10: a table supplied to the QueryBuilder is the instance that receives
\* every entry of the compilation and the one getBindParam() returns, no
\* other instance being created or changed; without one, exactly one new
\* table is created and used.
C10_OneTable ==
    [][(qbState = "none" /\ qbState' # "none") =>
          LET target == IF configBindParam' # 0 THEN configBindParam'
                        ELSE NewId(tables)
          IN  /\ DOMAIN tables' = DOMAIN tables \cup {target}
              /\ configBindParam' # 0 => DOMAIN tables' = DOMAIN tables
              /\ configBindParam' = 0 => target \notin DOMAIN tables
              /\ \A id \in DOMAIN tables \ {target} : tables'[id] = tables[id]
              /\ qbState' = "built" =>
                    /\ bindParam' = target
                    /\ Cardinality(DOMAIN tables'[target])
                         = (IF configBindParam' # 0
                            THEN Cardinality(DOMAIN tables[target]) ELSE 0)
                           + RegistrationsUpTo(parameters', Len(parameters'))
                    /\ \A k \in DOMAIN EmittedPlaceholders' :
                          NameOf(EmittedPlaceholders'[k])
                              \in DOMAIN tables'[target]
      ]_vars

\* a statement with a node predicate, a node property map, a Set and a Limit
\* compiled on the caller's table
C10_Witness ==
    /\ qbState = "built"
    /\ configBindParam = 1
    /\ bindParam = 1
    /\ parameters = <<MatchMultiple, SetProperties, LimitNumber>>
    /\ Len(EmittedPlaceholders) = 5

----------------------------------------------------------------------------
(* Further claims on the Clause Compiler, checked under Spec *)

\* the keyword a Match fragment is to begin with
MatchKeyword(match) ==
    IF match.flag THEN <<T("OPTIONAL"), SP, T("MATCH")>> ELSE <<T("MATCH")>>

\* C11 (as claimed): the fragment of every Match descriptor is
\* `MATCH <pattern>`, or `OPTIONAL MATCH <pattern>` when the optional flag is
\* true: it begins with the keyword, and so does a statement whose first
\* clause is that Match.
C11_MatchKeywordFirst ==
    qbState = "built" =>
        \A i \in DOMAIN qbTrace :
            parameters[i].kind = "match" =>
                LET f == qbTrace[i].s
                    kw == MatchKeyword(parameters[i])
                IN  /\ Len(f) > Len(kw) + 1
                    /\ SubSeq(f, 1, Len(kw)) = kw
                    /\ f[Len(kw) + 1] = SP
                    /\ ~IsWs(f[Len(kw) + 2])
                    /\ i = 1 => statement[1] = kw[1]

----------------------------------------------------------------------------
(* Further claims on the Predicate Compiler, checked under SpecWhere *)

\* the entries of the Where's table
Entries(h, id) == DOMAIN h[id]

\* C12 (as claimed): an addParams call registers one fresh entry for every
\* (identifier, attribute) pair of the maps accumulated so far, merged by
\* identifier and then by attribute, the pairs only an earlier map supplied
\* included, and removes or overwrites no entry registered earlier.
C12_ReRegistersEveryPair ==
    [][(/\ whereState = "built"
        /\ rawParams' # rawParams
        /\ AllConvertible') =>
          /\ Cardinality(Entries(tables', whereBindParam'))
               = Cardinality(Entries(tables, whereBindParam))
                 + Cardinality(SuppliedKeys')
          /\ \A nm \in Entries(tables, whereBindParam) :
                /\ nm \in Entries(tables', whereBindParam')
                /\ tables'[whereBindParam'][nm] = tables[whereBindParam][nm]
      ]_vars

StatementModes == {"text", "object"}

\* what a getStatement call in `mode` is to give on the current tuple list
RenderingOf(mode) ==
    IF mode = "object" /\ HasIn
    THEN [call |-> mode, status |-> "error", text |-> <<>>]
    ELSE [call |-> mode, status |-> "ok",
          text |-> IF mode = "object"
                   THEN <<T("{"), SP>> \o ExpectedParts(1, mode, <<SP>>)
                        \o <<SP, T("}")>>
                   ELSE ExpectedParts(1, mode, <<SP>>)]

\* C13: getStatement is read-only: a call, returning or raising, changes
\* neither the raw maps, nor the tuple list, nor any table, and what a call
\* gave last is what a call in that mode gives on the current tuple list, so
\* calls in one mode between two addParams calls give the same text.
C13_GetStatementReadOnly ==
    /\ [](whereOut.call \in StatementModes => whereOut = RenderingOf(whereOut.call))
    /\ [][whereOut'.call \in StatementModes =>
             UNCHANGED <<tables, rawParams, identifierPropertyData,
                         whereBindParam, whereState>>]_vars

\* a text-mode call that returned, after an addParams call, on a list with an
\* in tuple, which the object mode raises on
C13_Witness ==
    /\ whereOut.call = "text"
    /\ whereOut.status = "ok"
    /\ Len(rawParams) = 2
    /\ HasIn
    /\ Len(whereOut.text) > 0

====
